---- MODULE Spec2Model ----
(***************************************************************************)
(* A model of the rate-limited AI query dispatcher of src/main.py: the     *)
(* cooldown ledger (AIRateLimiter), the text-generation call               *)
(* (query_gemini_api), the handlers that use them (on_message,             *)
(* handle_moderation_command, /ai, /aistatus) and the administrative       *)
(* commands.                                                               *)
(*                                                                         *)
(* Handlers are coroutines on one event loop.  An action of the model is   *)
(* the code a handler runs between two suspensions (awaits that wait for   *)
(* the network); the code between two suspensions is atomic.               *)
(*                                                                         *)
(* Time.  time.time() is a float, and can_query truncates the remaining    *)
(* time with int().  The clock of the model counts ticks of                *)
(* 1/TicksPerSecond seconds, so that int() is a real truncation.  The      *)
(* clock reads the epoch time, which is far beyond one cooldown: it starts *)
(* at StartTime >= CooldownTicks.                                          *)
(*                                                                         *)
(* The platform.  The calls that send a reply, a reaction or the typing    *)
(* indicator are taken to succeed; a generated text holds at least one     *)
(* character; the prompt of /ai, a required option, is not empty.  The     *)
(* sends of a reminder and the nickname edits of the AFK system may fail.  *)
(*                                                                         *)
(* Spec runs two handlers at a time over the queries that reach the        *)
(* ledger; SpecOne runs one handler at a time over every shape of message, *)
(* command and response, the administrative commands included; SpecSend    *)
(* runs two trigger-phrase handlers with each send of a chunk a suspension *)
(* of its own.                                                             *)
(*                                                                         *)
(* The playback queue and the player have no code in src/main.py: they are *)
(* modelled from sections 4.5 and 4.6 of the specification (SpecQueue,     *)
(* SpecPlayer).                                                            *)
(*                                                                         *)
(* The reminders of /remind (SpecRemind), the AFK system (SpecAfk), one    *)
(* trivia question (SpecTrivia) and the reload of bot_data.json            *)
(* (SpecReload) each have their own state and specification; SpecBot runs  *)
(* on_message and afk_listener side by side over the messages of bots.     *)
(***************************************************************************)
EXTENDS Integers, Sequences, FiniteSets, TLC

\* ---------------------------------------------------------------- constants

AI_COOLDOWN_MINUTES == 5

SecondsPerMinute == 60

ApiTimeoutSeconds == 30

MaxPromptLen == 500

MessageCeiling == 2000

ChunkLen == 1990

\* Resolution of the model's clock: ticks per second.
TicksPerSecond == 2

\* How many times the clock advances in one behaviour.
MaxAdvances == 1

CooldownTicks == AI_COOLDOWN_MINUTES * SecondsPerMinute * TicksPerSecond

ApiTimeoutTicks == ApiTimeoutSeconds * TicksPerSecond

StartTime == CooldownTicks

\* The clock advances by one tick, by one tick less than the cooldown, or by the
\* cooldown.
Deltas == {1, CooldownTicks - 1, CooldownTicks}

Users == {"u1", "u2"}

Tasks == {"t1", "t2"}

\* guild_permissions of the author: administrator implies moderate_members.
Roles == {"member", "moderator", "admin"}

\* Length of the prompt after strip(): empty, the longest accepted, too long.
PromptLens == {0, MaxPromptLen, MaxPromptLen + 1}

\* Length of a generated text.
ResponseLens == {1, MessageCeiling, MessageCeiling + 1, 4200}

\* What the HTTP exchange of query_gemini_api can come to.
ApiOutcomes == {"ok", "no_key", "timeout", "bad_status", "no_content", "exception"}

NoTime == 0 - 1

VARIABLES
    now,              \* time.time(), in ticks
    advances,         \* how many times the clock has advanced
    user_last_query,  \* ai_rate_limiter.user_last_query: user -> time of record_query
    tasks,            \* the handler coroutines, one per task slot
    accept_log,       \* history: per user, the times of record_query of the last two
                      \* non-privileged queries that reached query_gemini_api, in
                      \* the order of their calls
    player,           \* the playback queue and player of one guild, with the
                      \* history of the calls made on the queue
    reminders,        \* the deferred reminder tasks of /remind, by request
    afk_users,        \* afk_users: user -> reason
    afk_listeners,    \* the afk_listener coroutines, one per task slot
    afk_log,          \* history: per user, the AFK periods begun and the welcome-backs sent
    trivia,           \* one TriviaView, its button callbacks and the history of the replies
    config            \* bot_data.json and the five globals loaded from it

vars == <<now, advances, user_last_query, tasks, accept_log, player, reminders, afk_users, afk_listeners, afk_log, trivia, config>>

\* ------------------------------------------------------------ AIRateLimiter

last_query_of(ledger, user_id) ==
    IF user_id \in DOMAIN ledger THEN ledger[user_id] ELSE 0

\* can_query with `>` for `>=`: a user is still refused at the end of the window.
can_query_strict(ledger, user_id, t) ==
    LET time_passed == t - last_query_of(ledger, user_id)
    IN  IF time_passed > CooldownTicks
        THEN <<TRUE, 0>>
        ELSE <<FALSE, (CooldownTicks - time_passed) \div TicksPerSecond>>

\* can_query at clock reading t: <<allowed, whole seconds remaining>>.
can_query(ledger, user_id, t) ==
    LET time_passed == t - last_query_of(ledger, user_id)
    IN  IF time_passed >= CooldownTicks
        THEN <<TRUE, 0>>
        ELSE <<FALSE, (CooldownTicks - time_passed) \div TicksPerSecond>>

\* record_query that starts a fresh ledger with the one entry.
record_query_alone(ledger, user_id, t) == [u \in {user_id} |-> t]

\* record_query at clock reading t.
record_query(ledger, user_id, t) ==
    [u \in (DOMAIN ledger) \cup {user_id} |->
        IF u = user_id THEN t ELSE ledger[u]]

\* get_remaining_time at clock reading t: the text shown to the user.
get_remaining_time(ledger, user_id, t) ==
    LET seconds == can_query(ledger, user_id, t)[2]
    IN  IF seconds <= 0
        THEN [ready |-> TRUE, minutes |-> 0, secs |-> 0]
        ELSE [ready |-> FALSE, minutes |-> seconds \div 60, secs |-> seconds % 60]

Ready == [ready |-> TRUE, minutes |-> 0, secs |-> 0]

\* --------------------------------------------------------- query_gemini_api

\* Length of the error text query_gemini_api returns for a failed exchange (the
\* text for an exception carries str(e), taken here as 30 characters).
ErrorLen(outcome) ==
    CASE outcome = "no_key"     -> 77
      [] outcome = "timeout"    -> 38
      [] outcome = "bad_status" -> 41
      [] outcome = "no_content" -> 28
      [] outcome = "exception"  -> 26 + 30

\* query_gemini_api without its `except Exception`: a connection error is raised
\* to the caller.
query_gemini_api_unguarded(outcome, len) ==
    IF outcome = "ok"
    THEN [raised |-> FALSE, error |-> FALSE, len |-> len]
    ELSE IF outcome = "exception"
    THEN [raised |-> TRUE, error |-> TRUE, len |-> 0]
    ELSE [raised |-> FALSE, error |-> TRUE, len |-> ErrorLen(outcome)]

\* The result of query_gemini_api for each outcome of the HTTP exchange.  The key
\* check returns before the try; inside the try a timeout is caught by
\* `except asyncio.TimeoutError`, anything else raised (connection error, invalid
\* JSON, a candidate without parts[0]['text']) by `except Exception`; a non-200
\* status and a payload without candidates/content/parts return their own text.
query_gemini_api(outcome, len) ==
    IF outcome = "ok"
    THEN [raised |-> FALSE, error |-> FALSE, len |-> len]
    ELSE [raised |-> FALSE, error |-> TRUE, len |-> ErrorLen(outcome)]

\* ------------------------------------------------------------------- tasks

Idle ==
    [kind |-> "none", pc |-> "idle", user |-> "u1", role |-> "member",
     bot |-> FALSE, dm |-> FALSE, head |-> <<>>, trig |-> FALSE, plen |-> 0, kw |-> "none", ment |-> FALSE,
     checked |-> "none", recorded |-> 0, recAt |-> NoTime,
     api |-> 0, sentAt |-> NoTime, failed |-> FALSE, rlen |-> 0, acked |-> 0,
     shown |-> Ready, action |-> "none", crashed |-> FALSE, out |-> <<>>,
     cmd |-> "none", perms |-> {}, writer |-> FALSE, effect |-> "none"]

\* An outbound message: what it is, the call that sends it, its length; for a
\* message that carries a slice of the response, where the slice starts in the
\* response and how many characters the message holds beside the slice.
Msg(kind, via, len) ==
    [kind |-> kind, via |-> via, len |-> len, start |-> 0, extra |-> 0]

\* The message holding response[start:start+n] followed by extra characters.
Slice(kind, via, start, n, extra) ==
    [kind |-> kind, via |-> via, len |-> n + extra, start |-> start, extra |-> extra]

\* "oh kp baa", character by character.
AI_TRIGGER_PHRASE == <<"o", "h", " ", "k", "p", " ", "b", "a", "a">>

\* str.lower() on one character, for the letters of the messages modelled.
lower_char(c) ==
    CASE c = "O" -> "o"
      [] c = "H" -> "h"
      [] c = "K" -> "k"
      [] c = "P" -> "p"
      [] c = "B" -> "b"
      [] c = "A" -> "a"
      [] OTHER   -> c

lower(s) == [i \in DOMAIN s |-> lower_char(s[i])]

startswith(s, prefix) ==
    /\ Len(s) >= Len(prefix)
    /\ SubSeq(s, 1, Len(prefix)) = prefix

\* No author counts as a bot.
is_bot_never(message) == FALSE

\* message.author.bot
is_bot(message) == message.bot

\* The test of line 351 without lower(): the phrase as it is spelled.
is_triggered_exact(content) == startswith(content, AI_TRIGGER_PHRASE)

\* `content_lower.startswith(AI_TRIGGER_PHRASE.lower())` (lines 348, 351).
is_triggered(content) == startswith(lower(content), lower(AI_TRIGGER_PHRASE))

\* How a message's content can begin: the phrase, the phrase in capitals and in
\* mixed case, and beginnings that are not the phrase (one character short, one
\* character off, the phrase after a space, other words, nothing).
TriggerHeads ==
    {AI_TRIGGER_PHRASE,
     <<"O", "H", " ", "K", "P", " ", "B", "A", "A">>,
     <<"O", "h", " ", "k", "P", " ", "b", "a", "A">>}

OtherHeads ==
    {<<"o", "h", " ", "k", "p", " ", "b", "a">>,
     <<"o", "h", " ", "k", "p", " ", "b", "a", "b">>,
     <<" ", "o", "h", " ", "k", "p", " ", "b", "a", "a">>,
     <<"h", "e", "l", "l", "o">>,
     <<>>}

IsAdmin(role) == role = "admin"

CanModerate(role) == role \in {"moderator", "admin"}

\* The keywords of on_message line 370, and `word in prompt.lower()` for a prompt
\* whose only keyword is kw ("mute" is a substring of "unmute").
Keywords == {"kick", "ban", "mute", "unmute"}

Contains(kw, word) == kw = word \/ (kw = "unmute" /\ word = "mute")

HasKeyword(kw) == \E word \in Keywords : Contains(kw, word)

\* The slices response[i:i+1990] for i in range(from, len, 1990), as lengths.
RECURSIVE SliceLens(_, _)
SliceLens(len, from) ==
    IF from >= len
    THEN <<>>
    ELSE <<(IF len - from < ChunkLen THEN len - from ELSE ChunkLen)>>
             \o SliceLens(len, from + ChunkLen)

\* The messages on_message sends for a response (lines 377-385).
MessageChunks(kind, len) ==
    IF len > MessageCeiling
    THEN [i \in 1..Len(SliceLens(len, 0)) |->
            Slice(kind, IF i = 1 THEN "reply" ELSE "send",
                  (i - 1) * ChunkLen, SliceLens(len, 0)[i], 0)]
    ELSE <<Slice(kind, "reply", 0, len, 0)>>

\* len("..."), which ai_command puts after the first slice (line 863).
EllipsisLen == 3

\* The messages ai_command sends for a response (lines 862-867): the first slice
\* is followed by "...".
CommandChunks(kind, len) ==
    IF len > MessageCeiling
    THEN <<Slice(kind, "followup", 0, ChunkLen, EllipsisLen)>>
           \o [i \in 1..Len(SliceLens(len, ChunkLen)) |->
                 Slice(kind, "send", i * ChunkLen, SliceLens(len, ChunkLen)[i], 0)]
    ELSE <<Slice(kind, "followup", 0, len, 0)>>

\* The end of on_message (lines 387-406): one witty response when the content
\* holds a trigger word with responses, and a random reaction.
TailOut(witty, react) ==
    (IF witty THEN <<Msg("witty", "send", 1)>> ELSE <<>>)
      \o (IF react THEN <<Msg("reaction", "react", 0)>> ELSE <<>>)

\* handle_moderation_command (lines 408-434): the action and the reply.  modres is
\* what the platform answers to the action: "ok", "forbidden" or "error".
handle_moderation_command(role, ment, kw, modres) ==
    IF ~CanModerate(role)
    THEN [action |-> "none", out |-> <<Msg("mod_denied", "reply", 1)>>]
    ELSE IF ~ment
    THEN [action |-> "none", out |-> <<Msg("mod_no_mention", "reply", 1)>>]
    ELSE LET act == IF Contains(kw, "kick") THEN "kick"
                    ELSE IF Contains(kw, "ban") THEN "ban"
                    ELSE IF Contains(kw, "mute") THEN "mute"
                    ELSE IF Contains(kw, "unmute") THEN "unmute"
                    ELSE "none"
         IN  IF act = "none"
             THEN [action |-> "none", out |-> <<>>]
             ELSE IF modres = "ok"
             THEN [action |-> act, out |-> <<Msg("mod_done", "reply", 1)>>]
             ELSE IF modres = "forbidden"
             THEN [action |-> "none", out |-> <<Msg("mod_forbidden", "reply", 1)>>]
             ELSE [action |-> "none", out |-> <<Msg("mod_error", "reply", 1)>>]

\* ------------------------------------------------ playback queue and player

\* How many tracks are enqueued in one behaviour.
MaxQueue == 3

\* The attempts of the bounded retry around the start of a track.
MaxRetries == 3

Tracks == {"A", "B"}

\* PlaybackQueue: the tracks waiting, the track playing ("null": none), the loop
\* flag.
EmptyQueue == [songs |-> <<>>, current |-> "null", loop |-> FALSE]

enqueue(q, track) == [q EXCEPT !.songs = Append(@, track)]

\* advance() taking the track enqueued last.
advance_lifo(q) ==
    IF q.loop /\ q.current # "null"
    THEN [q |-> q, track |-> q.current]
    ELSE IF q.songs = <<>>
    THEN [q |-> [q EXCEPT !.current = "null"], track |-> "null"]
    ELSE [q |-> [q EXCEPT !.current = q.songs[Len(q.songs)],
                          !.songs = SubSeq(q.songs, 1, Len(q.songs) - 1)],
          track |-> q.songs[Len(q.songs)]]

\* advance(): with loop on and a current track, that track again; otherwise the
\* head of songs becomes current; with songs empty current becomes null.
advance(q) ==
    IF q.loop /\ q.current # "null"
    THEN [q |-> q, track |-> q.current]
    ELSE IF q.songs = <<>>
    THEN [q |-> [q EXCEPT !.current = "null"], track |-> "null"]
    ELSE [q |-> [q EXCEPT !.current = Head(q.songs), !.songs = Tail(q.songs)],
          track |-> Head(q.songs)]

\* removeAt(i), 0-indexed into songs; out of range it does nothing.
removeAt(q, i) ==
    IF i < 0 \/ i >= Len(q.songs)
    THEN q
    ELSE [q EXCEPT !.songs = SubSeq(q.songs, 1, i) \o SubSeq(q.songs, i + 2, Len(q.songs))]

toggleLoop(q) == [q EXCEPT !.loop = ~@]

\* The player of a guild.  History: enq, the tracks enqueued, in order; ret, what
\* the calls of advance() made on the queue alone returned; pos, how many tracks
\* have been taken from songs; plain, whether neither toggleLoop nor removeAt has
\* been called; event, the last thing that happened; flip, which changes with
\* every call of playNext().  The transport streams a track or is idle; signals
\* counts the track-completion signals it has sent and the player has not yet
\* handled; stopped_by, what stopped it last.
NoSession ==
    [queue |-> EmptyQueue, state |-> "Idle", attempt |-> 0,
     transport |-> "idle", signals |-> 0, stopped_by |-> "none",
     enq |-> <<>>, ret |-> <<>>, pos |-> 0, plain |-> TRUE, event |-> "none",
     flip |-> FALSE]

\* playNext(): advance the queue; with no track the player is Idle, with a track
\* it is Resolving, in the first attempt to start it.
playNext(p, event) ==
    LET a == advance(p.queue)
    IN  IF a.track = "null"
        THEN [p EXCEPT !.queue = a.q, !.state = "Idle", !.attempt = 0, !.event = event,
                       !.flip = ~@]
        ELSE [p EXCEPT !.queue = a.q, !.state = "Resolving", !.attempt = 1,
                       !.pos = IF a.q.songs # p.queue.songs THEN @ + 1 ELSE @,
                       !.event = event, !.flip = ~@]

\* enqueue(track) on the queue alone.
Enqueue ==
    \E track \in Tracks :
        /\ Len(player.enq) < MaxQueue
        /\ player' = [player EXCEPT !.queue = enqueue(@, track),
                                    !.enq = Append(@, track), !.event = "enqueue"]
        /\ UNCHANGED <<now, advances, user_last_query, tasks, accept_log, reminders, afk_users, afk_listeners, afk_log, trivia, config>>

\* advance() on the queue alone.
Advance ==
    LET a == advance(player.queue)
    IN
    /\ Len(player.ret) <= MaxQueue
    /\ player' = [player EXCEPT !.queue = a.q, !.ret = Append(@, a.track),
                                !.pos = IF a.q.songs # player.queue.songs THEN @ + 1 ELSE @,
                                !.event = "advance"]
    /\ UNCHANGED <<now, advances, user_last_query, tasks, accept_log, reminders, afk_users, afk_listeners, afk_log, trivia, config>>

ToggleLoop ==
    /\ player' = [player EXCEPT !.queue = toggleLoop(@), !.plain = FALSE,
                                !.event = "toggleLoop"]
    /\ UNCHANGED <<now, advances, user_last_query, tasks, accept_log, reminders, afk_users, afk_listeners, afk_log, trivia, config>>

RemoveAt ==
    \E i \in 0..MaxQueue :
        /\ player' = [player EXCEPT !.queue = removeAt(@, i), !.plain = FALSE,
                                    !.event = "removeAt"]
        /\ UNCHANGED <<now, advances, user_last_query, tasks, accept_log, reminders, afk_users, afk_listeners, afk_log, trivia, config>>

\* enqueueFromQuery: the resolver fails and nothing changes, or its track is
\* appended and an Idle player starts on it.
EnqueueFromQuery ==
    \E track \in Tracks, resolved \in BOOLEAN :
        LET p == [player EXCEPT !.queue = enqueue(@, track), !.enq = Append(@, track)]
        IN
        /\ Len(player.enq) < MaxQueue
        /\ player' = IF ~resolved THEN [player EXCEPT !.event = "resolver_failed"]
                     ELSE IF player.state = "Idle" THEN playNext(p, "enqueue")
                     ELSE [p EXCEPT !.event = "enqueue"]
        /\ UNCHANGED <<now, advances, user_last_query, tasks, accept_log, reminders, afk_users, afk_listeners, afk_log, trivia, config>>

\* One attempt of the bounded retry to start the current track: the transport
\* accepts the source, or the attempt fails; after the last attempt the failure
\* is reported and the next entry is attempted at once.
StartAttempt ==
    \E accepted \in BOOLEAN :
        /\ player.state = "Resolving"
        /\ player' = IF accepted
                     THEN [player EXCEPT !.state = "Playing", !.transport = "streaming",
                                         !.event = "started"]
                     ELSE IF player.attempt < MaxRetries
                     THEN [player EXCEPT !.attempt = @ + 1, !.event = "retry"]
                     ELSE playNext(player, "gave_up")
        /\ UNCHANGED <<now, advances, user_last_query, tasks, accept_log, reminders, afk_users, afk_listeners, afk_log, trivia, config>>

\* The transport stops streaming: it sends one track-completion signal.  A
\* transport that is not streaming has nothing to stop (only one completion
\* signal is ever pending).
stop_transport(p, by) ==
    IF p.transport = "streaming"
    THEN [p EXCEPT !.transport = "idle", !.signals = @ + 1, !.stopped_by = by]
    ELSE p

\* The track ends by itself, or the stream breaks with an error.
TrackFinishes ==
    /\ player.state = "Playing" /\ player.transport = "streaming"
    /\ player' = [stop_transport(player, "end") EXCEPT !.event = "finished"]
    /\ UNCHANGED <<now, advances, user_last_query, tasks, accept_log, reminders, afk_users, afk_listeners, afk_log, trivia, config>>

\* A skip() that stops the transport and advances the queue itself.
skip_and_advance(p) == playNext(stop_transport(p, "skip"), "skip")

\* skip() while a track is active: the transport is stopped, and nothing else.
skip(p) == [stop_transport(p, "skip") EXCEPT !.event = "skip"]

\* skip(), valid only while a track is active.
Skip ==
    /\ player' = IF player.state \in {"Playing", "Paused"}
                 THEN skip(player)
                 ELSE [player EXCEPT !.event = "skip_refused"]
    /\ UNCHANGED <<now, advances, user_last_query, tasks, accept_log, reminders, afk_users, afk_listeners, afk_log, trivia, config>>

\* pause() from Playing and resume() from Paused.
PauseResume ==
    /\ player.state \in {"Playing", "Paused"}
    /\ player' = [player EXCEPT
                    !.state = IF @ = "Playing" THEN "Paused" ELSE "Playing",
                    !.event = IF player.state = "Playing" THEN "pause" ELSE "resume"]
    /\ UNCHANGED <<now, advances, user_last_query, tasks, accept_log, reminders, afk_users, afk_listeners, afk_log, trivia, config>>

\* The track-completion signal of the transport, with or without an error,
\* reaches the player.
OnTrackEnded ==
    /\ player.signals > 0
    /\ player' = playNext([player EXCEPT !.signals = @ - 1], "ended")
    /\ UNCHANGED <<now, advances, user_last_query, tasks, accept_log, reminders, afk_users, afk_listeners, afk_log, trivia, config>>

\* ------------------------------------------------------------------ /remind
\* A time string is modelled by what re.findall(r'(\d+)([smhd])', time)
\* returns for it: the sequence of its <<value, unit>> pairs.

MaxReminders == 2

MinRemindSeconds == 10
SecondsPerDay == 86400
MaxRemindDays == 7

unit_map == [s |-> 1, m |-> 60, h |-> 3600, d |-> SecondsPerDay]

RECURSIVE parse_seconds(_)
parse_seconds(pattern) ==
    IF pattern = <<>> THEN 0
    ELSE Head(pattern)[1] * unit_map[Head(pattern)[2]] + parse_seconds(Tail(pattern))

TimeStrings ==
    { <<>>,
      << <<9, "s">> >>,
      << <<10, "s">> >>,
      << <<1, "h">>, <<30, "m">> >>,
      << <<7, "d">> >>,
      << <<7, "d">>, <<1, "s">> >> }

NoReminder ==
    [pc |-> "none", seconds |-> 0, reply |-> "none", created |-> 0,
     dm_result |-> "none", dm |-> 0, chan |-> 0, swallowed |-> FALSE,
     escaped |-> FALSE]

ReminderIds == 1..MaxReminders

NoReminders == [r \in ReminderIds |-> NoReminder]

\* remind_command up to its reply: the three rejections, or the confirmation.
remind_validate(pattern) ==
    IF pattern = <<>> THEN "invalid_format"
    ELSE IF parse_seconds(pattern) < MinRemindSeconds THEN "too_short"
    ELSE IF parse_seconds(pattern) > MaxRemindDays * SecondsPerDay THEN "too_long"
    ELSE "confirmation"

\* The whole of remind_command: create_task follows the confirmation, so a
\* confirmation that raises leaves the handler before any task exists.
remind_command(pattern, confirmed) ==
    LET reply == remind_validate(pattern) IN
    IF reply # "confirmation"
    THEN [NoReminder EXCEPT !.pc = "rejected", !.reply = reply]
    ELSE IF ~confirmed
    THEN [NoReminder EXCEPT !.pc = "unconfirmed",
                            !.seconds = parse_seconds(pattern)]
    ELSE [NoReminder EXCEPT !.pc = "sleeping", !.reply = reply,
                            !.seconds = parse_seconds(pattern), !.created = 1]

DmOutcomes == {"ok", "forbidden", "error"}

\* send_reminder after its sleep: the direct message, and what each outcome
\* of it leads to.  Only discord.Forbidden is caught.
send_reminder(rec, outcome) ==
    [rec EXCEPT !.dm_result = outcome,
                !.dm = IF outcome = "ok" THEN 1 ELSE 0,
                !.escaped = (outcome = "error"),
                !.pc = IF outcome = "forbidden" THEN "fallback" ELSE "done"]

\* The except branch: one send to the channel, every exception of it passed.
send_in_channel(rec, sent) ==
    [rec EXCEPT !.chan = IF sent THEN @ + 1 ELSE @,
                !.swallowed = ~sent,
                !.pc = "done"]

\* /remind is invoked; requests take the reminder slots in order.
RemindCommand(r, pattern, confirmed) ==
    /\ reminders[r].pc = "none"
    /\ \A q \in ReminderIds : q < r => reminders[q].pc # "none"
    /\ reminders' = [reminders EXCEPT ![r] = remind_command(pattern, confirmed)]
    /\ UNCHANGED <<now, advances, user_last_query, tasks, accept_log, player, afk_users, afk_listeners, afk_log, trivia, config>>

\* The sleep of a reminder task is over and its direct message is attempted.
ReminderFires(r, outcome) ==
    /\ reminders[r].pc = "sleeping"
    /\ reminders' = [reminders EXCEPT ![r] = send_reminder(@, outcome)]
    /\ UNCHANGED <<now, advances, user_last_query, tasks, accept_log, player, afk_users, afk_listeners, afk_log, trivia, config>>

\* The send to the originating channel returns or raises.
ReminderFallback(r, sent) ==
    /\ reminders[r].pc = "fallback"
    /\ reminders' = [reminders EXCEPT ![r] = send_in_channel(@, sent)]
    /\ UNCHANGED <<now, advances, user_last_query, tasks, accept_log, player, afk_users, afk_listeners, afk_log, trivia, config>>

\* --------------------------------------------------------------- AFK system
\* afk_command and afk_listener.  A listener runs to its next await in one
\* step; the sends and the nickname edits are the awaits.

MaxAfkPeriods == 2

Reasons == {"AFK", "lunch"}

BotAuthor == "bot"

Authors == Users \cup {BotAuthor}

\* message.mentions: the mentioned users, each once.
MentionLists ==
    {<<>>} \cup {<<u>> : u \in Users}
           \cup {p \in Users \X Users : p[1] # p[2]}

AfkMessages ==
    [author : Authors, bot : BOOLEAN, ment : MentionLists]

\* The messages of users and of bots.
ListenedMessages == {m \in AfkMessages : m.bot = (m.author = BotAuthor)}

IdleListener ==
    [pc |-> "idle", author |-> "u1", bot |-> FALSE, ment |-> <<>>, k |-> 1,
     out |-> <<>>, crashed |-> FALSE]

NoAfkLog == [begun |-> [u \in Users |-> 0], welcomed |-> [u \in Users |-> 0]]

\* afk_users[user_id] = {...}
afk_set(users, u, reason) ==
    [v \in (DOMAIN users) \cup {u} |-> IF v = u THEN reason ELSE users[v]]

\* The entry of the author stays where it is.
afk_keep(users, u) == users

\* afk_users.pop(user_id)
afk_pop(users, u) == [v \in (DOMAIN users) \ {u} |-> users[v]]

\* The index of the first mention from k on that names an AFK user other than
\* the author, or 0: the loop over message.mentions up to its next send.
RECURSIVE next_notice(_, _, _, _)
next_notice(ment, k, users, author) ==
    IF k > Len(ment) THEN 0
    ELSE IF ment[k] \in DOMAIN users /\ ment[k] # author THEN k
    ELSE next_notice(ment, k + 1, users, author)

\* The listener goes through the mentions from l.k on, until it sends a notice
\* (and waits for the send) or the list ends.  The notice remembers whether
\* its subject was in afk_users when it was sent.
notify_mentions(l, users) ==
    LET i == next_notice(l.ment, l.k, users, l.author) IN
    IF i = 0 THEN [l EXCEPT !.pc = "done"]
    ELSE [l EXCEPT !.pc = "notice", !.k = i + 1,
                   !.out = Append(@, [kind |-> "afk_notice", about |-> l.ment[i],
                                      afk_then |-> l.ment[i] \in DOMAIN users])]

\* afk_listener up to its first await.
afk_listener(m, users) ==
    LET l == [IdleListener EXCEPT !.author = m.author, !.bot = m.bot,
                                  !.ment = m.ment] IN
    IF is_bot(m) THEN [l |-> [l EXCEPT !.pc = "done"], users |-> users]
    ELSE IF m.author \in DOMAIN users
    THEN [l |-> [l EXCEPT !.pc = "welcome",
                          !.out = <<[kind |-> "welcome_back", about |-> m.author,
                                     afk_then |-> TRUE]>>],
          users |-> afk_pop(users, m.author)]
    ELSE [l |-> notify_mentions(l, users), users |-> users]

Welcomes(out) ==
    Len(SelectSeq(out, LAMBDA x : x.kind = "welcome_back"))

\* /afk: the entry is written before the first await of afk_command.
AfkCommand(u, reason) ==
    /\ u \notin DOMAIN afk_users => afk_log.begun[u] < MaxAfkPeriods
    /\ afk_users' = afk_set(afk_users, u, reason)
    /\ afk_log' = [afk_log EXCEPT
                     !.begun[u] = IF u \in DOMAIN afk_users THEN @ ELSE @ + 1]
    /\ UNCHANGED <<now, advances, user_last_query, tasks, accept_log, player, reminders, afk_listeners, trivia, config>>

\* A message arrives and afk_listener runs to its first await or to its end.
AfkListenerStart(h, m) ==
    LET r == afk_listener(m, afk_users) IN
    /\ afk_listeners[h].pc = "idle"
    /\ afk_listeners' = [afk_listeners EXCEPT ![h] = r.l]
    /\ afk_users' = r.users
    /\ afk_log' = IF m.bot THEN afk_log
                  ELSE [afk_log EXCEPT !.welcomed[m.author] = @ + Welcomes(r.l.out)]
    /\ UNCHANGED <<now, advances, user_last_query, tasks, accept_log, player, reminders, trivia, config>>

NickOutcomes == {"ok", "forbidden", "error"}

\* The welcome-back was sent; the nickname edit returns, or raises
\* discord.Forbidden (passed), or raises something else (which leaves the
\* listener); then the mentions.
AfkListenerNick(h, outcome) ==
    /\ afk_listeners[h].pc = "welcome"
    /\ afk_listeners' = [afk_listeners EXCEPT ![h] =
                           IF outcome = "error"
                           THEN [@ EXCEPT !.pc = "done", !.crashed = TRUE]
                           ELSE notify_mentions(@, afk_users)]
    /\ UNCHANGED <<now, advances, user_last_query, tasks, accept_log, player, reminders, afk_users, afk_log, trivia, config>>

\* The send of a notice is over and the loop over the mentions goes on.
AfkListenerNext(h) ==
    /\ afk_listeners[h].pc = "notice"
    /\ afk_listeners' = [afk_listeners EXCEPT ![h] = notify_mentions(@, afk_users)]
    /\ UNCHANGED <<now, advances, user_last_query, tasks, accept_log, player, reminders, afk_users, afk_log, trivia, config>>

\* A finished listener leaves its slot.
AfkListenerRetire(h) ==
    /\ afk_listeners[h].pc = "done"
    /\ afk_listeners' = [afk_listeners EXCEPT ![h] = IdleListener]
    /\ UNCHANGED <<now, advances, user_last_query, tasks, accept_log, player, reminders, afk_users, afk_log, trivia, config>>

\* ------------------------------------------------------------------- trivia
\* One TriviaView and the callbacks of its buttons.  A callback runs to its
\* one await, the send of its reply, in one step.

MaxClicks == 2

Options == {"A", "B", "C", "D"}

IdleCallback == [pc |-> "idle", user |-> "u1", option |-> "A", reply |-> "none"]

NoTrivia ==
    [view |-> FALSE, correct |-> "A", answered |-> {},
     callbacks |-> [h \in Tasks |-> IdleCallback],
     clicks |-> [u \in Users |-> 0],
     verdicts |-> [u \in Users |-> <<>>],
     already |-> [u \in Users |-> 0]]

\* TriviaView.__init__
TriviaView(correct) == [NoTrivia EXCEPT !.view = TRUE, !.correct = correct]

\* The set of the users who answered stays as it is.
answered_same(answered, user_id) == answered

\* self.answered.add(interaction.user.id)
answered_add(answered, user_id) == answered \cup {user_id}

\* The callback of the button of one option, up to the send of its reply.
callback(v, h, user_id, option) ==
    IF user_id \in v.answered
    THEN [v EXCEPT !.callbacks[h] = [pc |-> "sending", user |-> user_id,
                                     option |-> option, reply |-> "already"],
                   !.clicks[user_id] = @ + 1,
                   !.already[user_id] = @ + 1]
    ELSE LET verdict == IF option = v.correct THEN "correct" ELSE "wrong" IN
         [v EXCEPT !.answered = answered_add(@, user_id),
                   !.callbacks[h] = [pc |-> "sending", user |-> user_id,
                                     option |-> option, reply |-> verdict],
                   !.clicks[user_id] = @ + 1,
                   !.verdicts[user_id] = Append(@, [option |-> option,
                                                    verdict |-> verdict])]

\* /trivia shows a question with its view.
TriviaCommand(correct) ==
    /\ ~trivia.view
    /\ trivia' = TriviaView(correct)
    /\ UNCHANGED <<now, advances, user_last_query, tasks, accept_log, player, reminders, afk_users, afk_listeners, afk_log, config>>

\* A user clicks a button of the view.
TriviaClick(h, user_id, option) ==
    /\ trivia.view
    /\ trivia.callbacks[h].pc = "idle"
    /\ trivia.clicks[user_id] < MaxClicks
    /\ trivia' = callback(trivia, h, user_id, option)
    /\ UNCHANGED <<now, advances, user_last_query, tasks, accept_log, player, reminders, afk_users, afk_listeners, afk_log, config>>

\* The send of a callback's reply is over and the callback returns.
TriviaReplied(h) ==
    /\ trivia.callbacks[h].pc = "sending"
    /\ trivia' = [trivia EXCEPT !.callbacks[h] = IdleCallback]
    /\ UNCHANGED <<now, advances, user_last_query, tasks, accept_log, player, reminders, afk_users, afk_listeners, afk_log, config>>

\* ------------------------------------------------------------ configuration
\* bot_data.json and the globals read from it.  A JSON value is known by its
\* type, by its keys when it is an object, and by a name for the rest of its
\* content; list(d.keys()) is modelled by the set of the keys.

Missing == [type |-> "missing", keys |-> {}, id |-> "none"]

EmptyDict == [type |-> "dict", keys |-> {}, id |-> "default"]

EmptyList == [type |-> "list", keys |-> {}, id |-> "default"]

WittyValues ==
    {Missing,
     [type |-> "dict", keys |-> {"hello"}, id |-> "w1"],
     [type |-> "dict", keys |-> {"hello", "momo"}, id |-> "w2"],
     [type |-> "list", keys |-> {}, id |-> "w3"]}

WelcomeValues == {Missing, [type |-> "list", keys |-> {}, id |-> "m1"]}

ConfigValues == {Missing, [type |-> "dict", keys |-> {"samu_user_id"}, id |-> "c1"]}

\* What json.load returns: an object with some of the three keys, or an array.
Documents ==
    [type : {"dict"}, witty_responses : WittyValues,
     welcome_messages : WelcomeValues, bot_config : ConfigValues]
      \cup [type : {"list"}, witty_responses : {Missing},
            welcome_messages : {Missing}, bot_config : {Missing}]

\* bot_data.json written by create_default_config.
default_data ==
    [type |-> "dict",
     witty_responses |-> [type |-> "dict", keys |-> {"hello"}, id |-> "w1"],
     welcome_messages |-> [type |-> "list", keys |-> {}, id |-> "m1"],
     bot_config |-> [type |-> "dict", keys |-> {"samu_user_id"}, id |-> "c1"]]

\* bot_data.json: not there, not JSON, or a document.
Files ==
    [state : {"missing", "invalid"}, doc : {default_data}]
      \cup [state : {"json"}, doc : Documents]

\* BOT_DATA.get(key, default), once BOT_DATA is known to be an object.
get(value, default) == IF value.type = "missing" THEN default ELSE value

\* The assignments of reload_bot_data in their order, up to the first
\* statement that raises: open (no file), json.load (no JSON), BOT_DATA.get
\* (an array has no get), WITTY_RESPONSES.keys (an array has no keys).
reload_bot_data(g, file) ==
    IF file.state # "json" THEN [g EXCEPT !.raised = TRUE]
    ELSE LET g1 == [g EXCEPT !.BOT_DATA = file.doc] IN
         IF file.doc.type # "dict" THEN [g1 EXCEPT !.raised = TRUE]
         ELSE LET g2 == [g1 EXCEPT
                           !.WITTY_RESPONSES = get(file.doc.witty_responses, EmptyDict),
                           !.WELCOME_MESSAGES = get(file.doc.welcome_messages, EmptyList),
                           !.CONFIG = get(file.doc.bot_config, EmptyDict)] IN
              IF g2.WITTY_RESPONSES.type # "dict" THEN [g2 EXCEPT !.raised = TRUE]
              ELSE [g2 EXCEPT !.TRIGGER_WORDS = g2.WITTY_RESPONSES.keys,
                              !.raised = FALSE]

\* The state after load_bot_data at the start of the program, from the file
\* create_default_config writes.
load_bot_data ==
    [file |-> [state |-> "json", doc |-> default_data],
     BOT_DATA |-> default_data,
     WITTY_RESPONSES |-> default_data.witty_responses,
     WELCOME_MESSAGES |-> default_data.welcome_messages,
     CONFIG |-> default_data.bot_config,
     TRIGGER_WORDS |-> default_data.witty_responses.keys,
     raised |-> FALSE, reply |-> "none", flip |-> FALSE]

\* Somebody edits, replaces or removes bot_data.json.
WriteFile(file) ==
    /\ file # config.file
    /\ config' = [config EXCEPT !.file = file]
    /\ UNCHANGED <<now, advances, user_last_query, tasks, accept_log, player, reminders, afk_users, afk_listeners, afk_log, trivia>>

\* /reload and !reload-data: an administrator's call of reload_bot_data with
\* its reply; anybody else gets the refusal.
reload_command(g, administrator) ==
    IF ~administrator
    THEN [g EXCEPT !.reply = "denied", !.raised = FALSE, !.flip = ~@]
    ELSE LET r == reload_bot_data(g, g.file) IN
         [r EXCEPT !.reply = IF r.raised THEN "failed" ELSE "reloaded", !.flip = ~@]

ReloadCommand(administrator) ==
    /\ config' = reload_command(config, administrator)
    /\ UNCHANGED <<now, advances, user_last_query, tasks, accept_log, player, reminders, afk_users, afk_listeners, afk_log, trivia>>

Keep2(s) == IF Len(s) > 2 THEN Tail(s) ELSE s

\* A non-privileged query reaches query_gemini_api: remember when it was recorded.
LogAccept(log, t) ==
    IF IsAdmin(t.role) THEN log
    ELSE [log EXCEPT ![t.user] = Keep2(Append(@, t.recAt))]

\* A finished handler keeps its record for one step, in which it leaves its slot:
\* leaving touches nothing shared, so it is taken before any other step.
NoneDone == \A h \in Tasks : tasks[h].pc # "done"

Init ==
    /\ now = StartTime
    /\ advances = 0
    /\ user_last_query = <<>>
    /\ tasks = [h \in Tasks |-> Idle]
    /\ accept_log = [u \in Users |-> <<>>]
    /\ player = NoSession
    /\ reminders = NoReminders
    /\ afk_users = <<>>
    /\ afk_listeners = [h \in Tasks |-> IdleListener]
    /\ afk_log = NoAfkLog
    /\ trivia = NoTrivia
    /\ config = load_bot_data

\* The clock advances.  A text-generation call is bounded by its timeout
\* (line 209), so the clock cannot pass the timeout of a call in flight.
Tick ==
    \E d \in Deltas :
        /\ NoneDone
        /\ advances < MaxAdvances
        /\ \A h \in Tasks :
              tasks[h].pc = "api" => now + d - tasks[h].sentAt <= ApiTimeoutTicks
        /\ now' = now + d
        /\ advances' = advances + 1
        /\ UNCHANGED <<user_last_query, tasks, accept_log, player, reminders, afk_users, afk_listeners, afk_log, trivia, config>>

\* A cooldown rejection that restarts the user's window.
cooldown_reject_resets(t, ledger, clock, via) ==
    [t |-> [t EXCEPT !.pc = "done", !.checked = "rejected",
                     !.shown = get_remaining_time(ledger, t.user, clock),
                     !.out = <<Msg("cooldown", via, 1)>>],
     ledger |-> record_query(ledger, t.user, clock)]

\* The cooldown rejection of both handlers (lines 356-362, 844-851): the reply
\* shows get_remaining_time, the handler returns, the ledger is not written.
cooldown_reject(t, ledger, clock, via) ==
    [t |-> [t EXCEPT !.pc = "done", !.checked = "rejected",
                     !.shown = get_remaining_time(ledger, t.user, clock),
                     !.out = <<Msg("cooldown", via, 1)>>],
     ledger |-> ledger]

\* A validation reply that comes after the query was recorded.
reply_after_record(t, ledger, kind, via) ==
    [t |-> [t EXCEPT !.pc = "done", !.recorded = @ + 1, !.recAt = now,
                     !.out = <<Msg(kind, via, 1)>>],
     ledger |-> record_query(ledger, t.user, now)]

\* Returning with one reply and no other effect.
reply_and_return(t, ledger, kind, via) ==
    [t |-> [t EXCEPT !.pc = "done", !.out = <<Msg(kind, via, 1)>>], ledger |-> ledger]

\* The length check off by one.
too_long_off_by_one(plen) == plen > MaxPromptLen + 1

\* `len(prompt) > 500` (lines 367, 852).
too_long(plen) == plen > MaxPromptLen

\* Going on to the text-generation call without recording the query.
accept_unrecorded(t, ledger, clock, pc) ==
    [t |-> [t EXCEPT !.pc = pc], ledger |-> ledger]

\* Recording the query of every caller, administrators included.
accept_everyone(t, ledger, clock, pc) ==
    [t |-> [t EXCEPT !.pc = pc, !.recorded = @ + 1, !.recAt = clock],
     ledger |-> record_query(ledger, t.user, clock)]

\* `if not is_admin: ai_rate_limiter.record_query(user_id)` (lines 373-374,
\* 858-859), after which the handler is suspended at pc.
accept(t, ledger, clock, pc) ==
    IF IsAdmin(t.role)
    THEN [t |-> [t EXCEPT !.pc = pc], ledger |-> ledger]
    ELSE [t |-> [t EXCEPT !.pc = pc, !.recorded = @ + 1, !.recAt = clock],
          ledger |-> record_query(ledger, t.user, clock)]

\* `message.author.guild_permissions` (line 353) for a direct message: the author
\* is a User, which has no guild_permissions, and the AttributeError leaves
\* on_message, which has no try.
no_guild_permissions(t, ledger) ==
    [t |-> [t EXCEPT !.pc = "done", !.crashed = TRUE], ledger |-> ledger]

\* on_message from its start to its first suspension (lines 344-375), as the task
\* and the ledger it leaves.  t holds the message: author, permissions, whether the
\* beginning of the content, the stripped prompt's length and keyword, whether
\* it mentions a user.  trig keeps the outcome of the test of line 351.
on_message_body(t, ledger, clock, modres, witty, react) ==
    LET cq == can_query(ledger, t.user, clock)
        md == handle_moderation_command(t.role, t.ment, t.kw, modres)
        m  == [t EXCEPT !.trig = is_triggered(t.head)]
        c  == [m EXCEPT !.checked = IF IsAdmin(t.role) THEN "none" ELSE "allowed"]
    IN
    IF is_bot(t)
    THEN [t |-> [t EXCEPT !.pc = "done"], ledger |-> ledger]
    ELSE IF ~m.trig
    THEN [t |-> [m EXCEPT !.pc = "done", !.out = TailOut(witty, react)], ledger |-> ledger]
    ELSE IF m.dm
    THEN no_guild_permissions(m, ledger)
    ELSE IF ~IsAdmin(t.role) /\ ~cq[1]
    THEN cooldown_reject(m, ledger, clock, "reply")
    ELSE IF c.plen = 0
    THEN reply_and_return(c, ledger, "usage", "reply")
    ELSE IF too_long(c.plen)
    THEN reply_and_return(c, ledger, "too_long", "reply")
    ELSE IF HasKeyword(c.kw)
    THEN [t |-> [c EXCEPT !.pc = "done", !.action = md.action, !.out = md.out],
          ledger |-> ledger]
    ELSE accept(c, ledger, clock, "typing")

on_message_start(h, t, modres, witty, react) ==
    LET r == on_message_body(t, user_last_query, now, modres, witty, react)
    IN
    /\ NoneDone
    /\ tasks[h].pc = "idle"
    /\ tasks' = [tasks EXCEPT ![h] = r.t]
    /\ user_last_query' = r.ledger
    /\ UNCHANGED <<now, advances, accept_log, player, reminders, afk_users, afk_listeners, afk_log, trivia, config>>

\* The messages a handler can be started with.  Fields a path does not read are
\* left at their defaults: a mention and the moderation capability matter only
\* next to a keyword, and a direct message (dm) differs from a guild message
\* only where guild_permissions is read.
BotMessages ==
    {[Idle EXCEPT !.kind = "msg", !.user = u, !.bot = TRUE] : u \in Users}

PlainMessages ==
    {[Idle EXCEPT !.kind = "msg", !.user = u, !.head = c] : u \in Users, c \in OtherHeads}

Queries(R, N, H) ==
    {[Idle EXCEPT !.kind = "msg", !.user = u, !.role = r, !.head = c, !.plen = n] :
        u \in Users, r \in R, n \in N, c \in H}

Directives ==
    {[Idle EXCEPT !.kind = "msg", !.user = u, !.role = r, !.head = AI_TRIGGER_PHRASE,
                  !.plen = MaxPromptLen, !.kw = k, !.ment = m] :
        u \in Users, r \in Roles, k \in Keywords, m \in BOOLEAN}

DirectMessages ==
    {[Idle EXCEPT !.kind = "msg", !.user = u, !.dm = TRUE, !.head = c, !.plen = n] :
        u \in Users, c \in {AI_TRIGGER_PHRASE, <<"h", "e", "l", "l", "o">>},
        n \in {0, MaxPromptLen}}

AllMessages ==
    BotMessages \cup PlainMessages \cup Directives \cup DirectMessages
      \cup Queries(Roles, PromptLens, {AI_TRIGGER_PHRASE})
      \cup Queries({"member"}, {MaxPromptLen}, TriggerHeads)

CoreMessages == Queries({"member", "admin"}, {MaxPromptLen}, {AI_TRIGGER_PHRASE})

\* What a bot may send, this bot's own replies and notices included: plain
\* text, queries, and directives with a keyword and a mention.
BotAuthored ==
    {[m EXCEPT !.bot = TRUE] :
        m \in PlainMessages \cup CoreMessages
                \cup {d \in Directives : d.role = "member" /\ d.kw = "kick"}}

ModResults == {"ok", "forbidden", "error"}

OnMessage(TS, MS, TL) ==
    \E h \in TS, t \in MS, modres \in ModResults, witty \in TL, react \in TL :
        on_message_start(h, t, modres, witty, react)

\* on_message resumes inside `async with message.channel.typing()` and calls
\* query_gemini_api (line 376).
on_message_call(h) ==
    /\ NoneDone
    /\ tasks[h].kind = "msg" /\ tasks[h].pc = "typing"
    /\ tasks' = [tasks EXCEPT ![h] = [@ EXCEPT !.pc = "api", !.api = @ + 1, !.sentAt = now]]
    /\ accept_log' = LogAccept(accept_log, tasks[h])
    /\ UNCHANGED <<now, advances, user_last_query, player, reminders, afk_users, afk_listeners, afk_log, trivia, config>>

OnMessageCall(TS) == \E h \in TS : on_message_call(h)

\* on_message resumes with the result of query_gemini_api and sends it
\* (lines 376-406).  An exception raised by the call would leave the handler.
on_message_respond(h, outcome, len, witty, react) ==
    LET r == query_gemini_api(outcome, len)
        kind == IF r.error THEN "ai_error" ELSE "ai_text"
    IN
    /\ NoneDone
    /\ tasks[h].kind = "msg" /\ tasks[h].pc = "api"
    /\ tasks' = [tasks EXCEPT ![h] =
                   IF r.raised
                   THEN [@ EXCEPT !.pc = "done", !.failed = TRUE, !.crashed = TRUE]
                   ELSE [@ EXCEPT !.pc = "done", !.failed = r.error, !.rlen = r.len,
                                  !.acked = Len(MessageChunks(kind, r.len)),
                                  !.out = MessageChunks(kind, r.len) \o TailOut(witty, react)]]
    /\ UNCHANGED <<now, advances, user_last_query, accept_log, player, reminders, afk_users, afk_listeners, afk_log, trivia, config>>

OnMessageRespond(TS, RL, TL) ==
    \E h \in TS, outcome \in ApiOutcomes, len \in RL, witty \in TL, react \in TL :
        /\ outcome # "ok" => len = 1
        /\ on_message_respond(h, outcome, len, witty, react)

\* Starting every remaining send at once, without waiting for the one before.
next_chunk_all(chunks, issued) == SubSeq(chunks, issued + 1, Len(chunks))

\* One turn of the loop over the chunks (lines 379-383, 385): the next chunk is
\* handed to `await message.reply` (the first) or `await message.channel.send`,
\* and the handler is suspended until that send completes.
next_chunk(chunks, issued) == <<chunks[issued + 1]>>

\* on_message resumes with the result of query_gemini_api and starts the send of
\* the first chunk (lines 376-381, 385), in which it is suspended.
on_message_receive(h, outcome, len) ==
    LET r == query_gemini_api(outcome, len)
        kind == IF r.error THEN "ai_error" ELSE "ai_text"
    IN
    /\ NoneDone
    /\ tasks[h].kind = "msg" /\ tasks[h].pc = "api"
    /\ tasks' = [tasks EXCEPT ![h] =
                   IF r.raised
                   THEN [@ EXCEPT !.pc = "done", !.failed = TRUE, !.crashed = TRUE]
                   ELSE [@ EXCEPT !.pc = "send", !.failed = r.error, !.rlen = r.len,
                                  !.out = next_chunk(MessageChunks(kind, r.len), 0)]]
    /\ UNCHANGED <<now, advances, user_last_query, accept_log, player, reminders, afk_users, afk_listeners, afk_log, trivia, config>>

OnMessageReceive(TS, RL) ==
    \E h \in TS, outcome \in ApiOutcomes, len \in RL :
        /\ outcome # "ok" => len = 1
        /\ on_message_receive(h, outcome, len)

\* The send on_message is suspended in completes: the loop starts the send of the
\* next chunk, or, after the last one, the handler runs to its end (lines 379-406).
on_message_sent(h, witty, react) ==
    LET t == tasks[h]
        chunks == MessageChunks(t.out[1].kind, t.rlen)
    IN
    /\ NoneDone
    /\ t.kind = "msg" /\ t.pc = "send"
    /\ tasks' = [tasks EXCEPT ![h] =
                   IF Len(t.out) < Len(chunks)
                   THEN [@ EXCEPT !.acked = @ + 1,
                                  !.out = @ \o next_chunk(chunks, Len(t.out))]
                   ELSE [@ EXCEPT !.acked = @ + 1, !.pc = "done",
                                  !.out = @ \o TailOut(witty, react)]]
    /\ UNCHANGED <<now, advances, user_last_query, accept_log, player, reminders, afk_users, afk_listeners, afk_log, trivia, config>>

OnMessageSent(TS, TL) ==
    \E h \in TS, witty \in TL, react \in TL : on_message_sent(h, witty, react)

\* /ai from its start to its first suspension (lines 839-857), as the task and
\* the ledger it leaves.
ai_command_body(t, ledger, clock) ==
    LET cq == can_query(ledger, t.user, clock)
        c  == [t EXCEPT !.checked = IF IsAdmin(t.role) THEN "none" ELSE "allowed"]
    IN
    IF ~IsAdmin(t.role) /\ ~cq[1]
    THEN cooldown_reject(t, ledger, clock, "ephemeral")
    ELSE IF too_long(c.plen)
    THEN reply_and_return(c, ledger, "too_long", "ephemeral")
    ELSE [t |-> [c EXCEPT !.pc = "defer"], ledger |-> ledger]

ai_command_start(h, t) ==
    LET r == ai_command_body(t, user_last_query, now)
    IN
    /\ NoneDone
    /\ tasks[h].pc = "idle"
    /\ tasks' = [tasks EXCEPT ![h] = r.t]
    /\ user_last_query' = r.ledger
    /\ UNCHANGED <<now, advances, accept_log, player, reminders, afk_users, afk_listeners, afk_log, trivia, config>>

\* The prompt of /ai is a required option: the platform delivers no empty one.
\* ai_command reads no permission but administrator.
Commands(N, K) ==
    {[Idle EXCEPT !.kind = "ai", !.user = u, !.role = r, !.plen = n, !.kw = k] :
        u \in Users, r \in {"member", "admin"}, n \in N, k \in K}

AllCommands == Commands(PromptLens \ {0}, {"none", "kick"})

CoreCommands == Commands({MaxPromptLen}, {"none"})

AiCommand(TS, CS) == \E h \in TS, t \in CS : ai_command_start(h, t)

\* /ai resumes after `await interaction.response.defer()`, records the query and
\* calls query_gemini_api (lines 858-861).
ai_command_call(h) ==
    LET r == accept(tasks[h], user_last_query, now, "api")
    IN
    /\ NoneDone
    /\ tasks[h].kind = "ai" /\ tasks[h].pc = "defer"
    /\ user_last_query' = r.ledger
    /\ tasks' = [tasks EXCEPT ![h] = [r.t EXCEPT !.api = @ + 1, !.sentAt = now]]
    /\ accept_log' = LogAccept(accept_log, r.t)
    /\ UNCHANGED <<now, advances, player, reminders, afk_users, afk_listeners, afk_log, trivia, config>>

AiCommandCall(TS) == \E h \in TS : ai_command_call(h)

\* /ai resumes with the result and sends it (lines 861-870); an exception is
\* caught and answered with the apology.
ai_command_respond(h, outcome, len) ==
    LET r == query_gemini_api(outcome, len)
        kind == IF r.error THEN "ai_error" ELSE "ai_text"
    IN
    /\ NoneDone
    /\ tasks[h].kind = "ai" /\ tasks[h].pc = "api"
    /\ tasks' = [tasks EXCEPT ![h] =
                   IF r.raised
                   THEN [@ EXCEPT !.pc = "done", !.failed = TRUE,
                                  !.out = <<Msg("ai_error", "followup", 56)>>]
                   ELSE [@ EXCEPT !.pc = "done", !.failed = r.error, !.rlen = r.len,
                                  !.out = CommandChunks(kind, r.len)]]
    /\ UNCHANGED <<now, advances, user_last_query, accept_log, player, reminders, afk_users, afk_listeners, afk_log, trivia, config>>

AiCommandRespond(TS, RL) ==
    \E h \in TS, outcome \in ApiOutcomes, len \in RL :
        /\ outcome # "ok" => len = 1
        /\ ai_command_respond(h, outcome, len)

\* /aistatus (lines 873-884).
ai_status_command(h, u) ==
    LET cq == can_query(user_last_query, u, now)
        t == [Idle EXCEPT !.kind = "status", !.user = u]
    IN
    /\ NoneDone
    /\ tasks[h].pc = "idle"
    /\ tasks' = [tasks EXCEPT ![h] =
                   IF cq[1]
                   THEN [t EXCEPT !.pc = "done", !.checked = "allowed",
                                  !.out = <<Msg("status_ready", "ephemeral", 1)>>]
                   ELSE [t EXCEPT !.pc = "done", !.checked = "rejected",
                                  !.shown = get_remaining_time(user_last_query, u, now),
                                  !.out = <<Msg("status_cooldown", "ephemeral", 1)>>]]
    /\ UNCHANGED <<now, advances, user_last_query, accept_log, player, reminders, afk_users, afk_listeners, afk_log, trivia, config>>

AiStatus(TS) == \E h \in TS, u \in Users : ai_status_command(h, u)

\* ------------------------------------------------- administrative commands

\* guild_permissions of a caller, of those the commands read: nothing, one
\* permission, or everything (an administrator holds every permission).
AllPerms == {"administrator", "manage_channels", "manage_messages", "moderate_members"}

PermSets == {{}, {"manage_channels"}, {"manage_messages"}, AllPerms}

AdminCommands ==
    {"reload", "reload-data", "kpwrite", "kpannounce", "slowmode", "purge", "lock", "unlock"}

\* What the platform (or, for a reload, the file) answers to the command's effect.
AdminResults == {"ok", "forbidden", "error"}

\* The authorization check of each command: guild_permissions.administrator
\* (lines 948, 1037), manage_channels (716, 1508, 1532), manage_messages (744),
\* interaction.user.id == CONFIG["write_command_user_id"] (804, 822).
authorized(cmd, perms, writer) ==
    CASE cmd \in {"reload", "reload-data"}       -> "administrator" \in perms
      [] cmd \in {"slowmode", "lock", "unlock"}  -> "manage_channels" \in perms
      [] cmd = "purge"                           -> "manage_messages" \in perms
      [] cmd \in {"kpwrite", "kpannounce"}       -> writer

\* One administrative command from the check to the last reply, invoked in a
\* guild.  valid: the argument is in range (slowmode, purge) or the target
\* channel is configured and found (kpwrite, kpannounce).  The commands with a
\* try answer a refusal and an error; kpwrite and kpannounce have none, and an
\* exception of channel.send leaves the handler.
admin_command(cmd, perms, writer, valid, result) ==
    LET via == IF cmd = "reload-data" THEN "send" ELSE "respond"
        one(kind, effect) ==
            [effect |-> effect, crashed |-> FALSE, out |-> <<Msg(kind, via, 1)>>]
    IN
    IF ~authorized(cmd, perms, writer)
    THEN one("admin_denied", "none")
    ELSE IF cmd \in {"slowmode", "purge", "kpwrite", "kpannounce"} /\ ~valid
    THEN one("admin_invalid", "none")
    ELSE IF result = "ok"
    THEN one("admin_done", cmd)
    ELSE IF cmd \in {"kpwrite", "kpannounce"}
    THEN [effect |-> "none", crashed |-> TRUE, out |-> <<>>]
    ELSE IF result = "forbidden" /\ cmd \notin {"reload", "reload-data"}
    THEN one("admin_forbidden", "none")
    ELSE one("admin_error", "none")

admin_command_start(h, cmd, perms, writer, valid, result) ==
    LET r == admin_command(cmd, perms, writer, valid, result)
    IN
    /\ NoneDone
    /\ tasks[h].pc = "idle"
    /\ tasks' = [tasks EXCEPT ![h] =
                   [Idle EXCEPT !.kind = "admin", !.pc = "done", !.cmd = cmd,
                                !.perms = perms, !.writer = writer,
                                !.effect = r.effect, !.crashed = r.crashed,
                                !.out = r.out]]
    /\ UNCHANGED <<now, advances, user_last_query, accept_log, player, reminders, afk_users, afk_listeners, afk_log, trivia, config>>

\* A command reads either the permissions or the identity of its caller.
AdminCommand(TS) ==
    \E h \in TS, cmd \in AdminCommands, perms \in PermSets, writer \in BOOLEAN,
       valid \in BOOLEAN, result \in AdminResults :
        /\ cmd \in {"kpwrite", "kpannounce"} => perms = {}
        /\ cmd \notin {"kpwrite", "kpannounce"} => ~writer
        /\ admin_command_start(h, cmd, perms, writer, valid, result)

\* A finished handler leaves its slot.
Retire(TS) ==
    \E h \in TS :
        /\ tasks[h].pc = "done"
        /\ tasks' = [tasks EXCEPT ![h] = Idle]
        /\ UNCHANGED <<now, advances, user_last_query, accept_log, player, reminders, afk_users, afk_listeners, afk_log, trivia, config>>

\* Two handlers at a time, over the queries that reach the cooldown ledger.
Next ==
    \/ Tick
    \/ OnMessage(Tasks, CoreMessages, {FALSE})
    \/ OnMessageCall(Tasks)
    \/ OnMessageRespond(Tasks, {1}, {FALSE})
    \/ AiCommand(Tasks, CoreCommands)
    \/ AiCommandCall(Tasks)
    \/ AiCommandRespond(Tasks, {1})
    \/ AiStatus(Tasks)
    \/ Retire(Tasks)

Spec == Init /\ [][Next]_vars

\* One handler at a time, over every shape of message, command and response.
NextOne ==
    \/ Tick
    \/ OnMessage({"t1"}, AllMessages, BOOLEAN)
    \/ OnMessageCall({"t1"})
    \/ OnMessageRespond({"t1"}, ResponseLens, BOOLEAN)
    \/ AiCommand({"t1"}, AllCommands)
    \/ AiCommandCall({"t1"})
    \/ AiCommandRespond({"t1"}, ResponseLens)
    \/ AiStatus({"t1"})
    \/ AdminCommand({"t1"})
    \/ Retire({"t1"})

SpecOne == Init /\ [][NextOne]_vars

\* Two trigger-phrase handlers at a time, each send of a chunk a suspension of
\* its own.
NextSend ==
    \/ OnMessage(Tasks, CoreMessages, {FALSE})
    \/ OnMessageCall(Tasks)
    \/ OnMessageReceive(Tasks, ResponseLens)
    \/ OnMessageSent(Tasks, BOOLEAN)
    \/ Retire(Tasks)

SpecSend == Init /\ [][NextSend]_vars

\* The playback queue by itself.
NextQueue ==
    \/ Enqueue
    \/ Advance
    \/ ToggleLoop
    \/ RemoveAt

SpecQueue == Init /\ [][NextQueue]_vars

\* The player of one guild.
NextPlayer ==
    \/ EnqueueFromQuery
    \/ StartAttempt
    \/ TrackFinishes
    \/ Skip
    \/ PauseResume
    \/ OnTrackEnded
    \/ ToggleLoop

SpecPlayer == Init /\ [][NextPlayer]_vars

\* The reminders alone: requests of /remind and their deferred tasks, in every
\* interleaving.
NextRemind ==
    \/ \E r \in ReminderIds, pattern \in TimeStrings, confirmed \in BOOLEAN :
           RemindCommand(r, pattern, confirmed)
    \/ \E r \in ReminderIds, outcome \in DmOutcomes : ReminderFires(r, outcome)
    \/ \E r \in ReminderIds, sent \in BOOLEAN : ReminderFallback(r, sent)

SpecRemind == Init /\ [][NextRemind]_vars

\* The AFK system alone: /afk and the listeners of two concurrent messages.
NextAfk ==
    \/ \E u \in Users, reason \in Reasons : AfkCommand(u, reason)
    \/ \E h \in Tasks, m \in ListenedMessages : AfkListenerStart(h, m)
    \/ \E h \in Tasks, outcome \in NickOutcomes : AfkListenerNick(h, outcome)
    \/ \E h \in Tasks : AfkListenerNext(h)
    \/ \E h \in Tasks : AfkListenerRetire(h)

SpecAfk == Init /\ [][NextAfk]_vars

\* One trivia question alone: the clicks of two users on its buttons.
NextTrivia ==
    \/ \E correct \in Options : TriviaCommand(correct)
    \/ \E h \in Tasks, u \in Users, option \in Options : TriviaClick(h, u, option)
    \/ \E h \in Tasks : TriviaReplied(h)

SpecTrivia == Init /\ [][NextTrivia]_vars

\* The configuration alone: changes of bot_data.json and reloads.
NextReload ==
    \/ \E file \in Files : WriteFile(file)
    \/ \E administrator \in BOOLEAN : ReloadCommand(administrator)

SpecReload == Init /\ [][NextReload]_vars

\* Both message handlers, one of each at a time, over the messages of bots and
\* the queries and AFK users that give a bot's message something to touch.
NextBot ==
    \/ OnMessage({"t1"}, BotAuthored \cup CoreMessages, {FALSE})
    \/ OnMessageCall({"t1"})
    \/ OnMessageRespond({"t1"}, {1}, {FALSE})
    \/ Retire({"t1"})
    \/ \E u \in Users, reason \in Reasons : AfkCommand(u, reason)
    \/ \E m \in ListenedMessages : AfkListenerStart("t1", m)
    \/ \E outcome \in NickOutcomes : AfkListenerNick("t1", outcome)
    \/ AfkListenerNext("t1")
    \/ AfkListenerRetire("t1")

SpecBot == Init /\ [][NextBot]_vars

\* ------------------------------------------------------------------ claims

Cooling(u) ==
    /\ u \in DOMAIN user_last_query
    /\ now < user_last_query[u] + CooldownTicks

Finished(h) == tasks[h].pc = "done"

Kinds(out) == [i \in DOMAIN out |-> out[i].kind]

\* C1: for every user, any two non-privileged queries that reach the
\* text-generation call were recorded at least one cooldown apart, whatever the
\* interleaving of the handlers.
C1_OneQueryPerWindow ==
    \A u \in Users :
        Len(accept_log[u]) = 2 =>
            \/ accept_log[u][2] - accept_log[u][1] >= CooldownTicks
            \/ accept_log[u][1] - accept_log[u][2] >= CooldownTicks

\* C2: the ledger changes only by record_query in a handling whose can_query
\* returned allowed; a handling that ends in a cooldown rejection, and /aistatus,
\* leave it unchanged for every user.
C2_LedgerFrame ==
    [][ /\ user_last_query' # user_last_query =>
             \E h \in Tasks :
                 /\ tasks'[h].recorded = tasks[h].recorded + 1
                 /\ tasks'[h].checked = "allowed"
                 /\ user_last_query' = record_query(user_last_query, tasks'[h].user, now)
        /\ \A h \in Tasks :
             tasks[h].pc = "idle" /\ tasks'[h].checked = "rejected" =>
                 user_last_query' = user_last_query
        /\ \A h \in Tasks :
             tasks[h].pc = "idle" /\ tasks'[h].kind = "status" =>
                 user_last_query' = user_last_query
      ]_vars

\* A query was rejected for cooldown after the clock moved on from the recorded
\* time, and the ledger still holds the recorded time.
C2_Witness ==
    \E h \in Tasks :
        /\ Finished(h)
        /\ tasks[h].kind \in {"msg", "ai"}
        /\ tasks[h].checked = "rejected"
        /\ user_last_query[tasks[h].user] < now

Remaining(u) == last_query_of(user_last_query, u) + CooldownTicks - now

\* C3 as amended: inside the window can_query returns false with the remaining
\* time truncated to whole seconds, from the end of the window on it returns
\* (true, 0), also for a user with no entry; /aistatus reports accordingly.
C3_CooldownTruncated ==
    \A u \in Users :
        LET r == can_query(user_last_query, u, now)
        IN  /\ IF Cooling(u)
               THEN /\ r[1] = FALSE
                    /\ r[2] * TicksPerSecond <= Remaining(u)
                    /\ Remaining(u) < (r[2] + 1) * TicksPerSecond
               ELSE r = <<TRUE, 0>>
            /\ \A h \in Tasks :
                 Finished(h) /\ tasks[h].kind = "status" /\ tasks[h].user = u =>
                     (tasks[h].checked = "rejected" <=> Cooling(u))

\* C3 as stated: inside the window the seconds returned are exactly
\* T + cooldownSeconds - T'.
C3_CooldownExact ==
    \A u \in Users :
        LET r == can_query(user_last_query, u, now)
        IN  IF Cooling(u)
            THEN r[1] = FALSE /\ r[2] * TicksPerSecond = Remaining(u)
            ELSE r = <<TRUE, 0>>

\* /aistatus reported a cooldown whose remaining time is no whole number of seconds.
C3_Witness ==
    \E h \in Tasks :
        /\ Finished(h)
        /\ tasks[h].kind = "status"
        /\ tasks[h].checked = "rejected"
        /\ Remaining(tasks[h].user) % TicksPerSecond # 0

RejectKinds == {"cooldown", "usage", "too_long"}

ModKinds == {"mod_denied", "mod_no_mention", "mod_done", "mod_forbidden", "mod_error"}

\* C4: a handling calls record_query at most once, and only after its can_query
\* returned allowed; a handling that was rejected (cooldown, empty prompt,
\* over-long prompt) or went to moderation never calls it.
C4_RecordAfterAllowed ==
    \A h \in Tasks :
        LET t == tasks[h]
        IN  /\ t.recorded <= 1
            /\ t.recorded = 1 => t.checked = "allowed" /\ t.kind \in {"msg", "ai"}
            /\ Finished(h) /\ t.out # <<>> /\ t.out[1].kind \in RejectKinds \cup ModKinds =>
                 t.recorded = 0
            /\ t.action # "none" => t.recorded = 0

\* A handling recorded its query after can_query allowed it, and has answered.
C4_Witness ==
    \E h \in Tasks :
        /\ Finished(h)
        /\ tasks[h].recorded = 1
        /\ tasks[h].checked = "allowed"
        /\ tasks[h].out # <<>>

\* C5: an administrator's query is never rejected for cooldown, whatever the
\* ledger holds, and no step of an administrator's handling writes the ledger.
C5_AdminBypass ==
    /\ [](\A h \in Tasks :
            IsAdmin(tasks[h].role) =>
                /\ tasks[h].checked # "rejected"
                /\ tasks[h].recorded = 0
                /\ \A i \in DOMAIN tasks[h].out : tasks[h].out[i].kind # "cooldown")
    /\ [][ \A h \in Tasks :
             tasks'[h] # tasks[h] /\ IsAdmin(tasks'[h].role) =>
                 user_last_query' = user_last_query ]_vars

\* An administrator's query reached the text-generation call while the ledger
\* holds an active cooldown for that user.
C5_Witness ==
    \E h \in Tasks :
        /\ IsAdmin(tasks[h].role)
        /\ tasks[h].api = 1
        /\ Cooling(tasks[h].user)

IsQuery(t) == (t.kind = "msg" /\ t.trig /\ ~t.bot) \/ t.kind = "ai"

Count(out, kind) == Cardinality({i \in DOMAIN out : out[i].kind = kind})

C7_ModerationIgnoresCooldown ==
    \A h \in Tasks :
        LET t == tasks[h]
        IN  Finished(h) /\ t.kind = "msg" /\ t.trig /\ t.role = "moderator"
              /\ HasKeyword(t.kw) /\ t.ment /\ t.plen <= MaxPromptLen =>
                 /\ t.out # <<>>
                 /\ t.out[1].kind \in ModKinds

\* C8: an empty prompt is answered with the usage hint and an over-long prompt
\* with the length rejection, also while the caller's cooldown is active.
C8_ValidationBeforeCooldown ==
    \A h \in Tasks :
        LET t == tasks[h]
        IN  Finished(h) /\ IsQuery(t) =>
              /\ t.plen = 0 => Kinds(t.out) = <<"usage">>
              /\ t.plen > MaxPromptLen => Kinds(t.out) = <<"too_long">>

\* C9: a non-privileged query whose call was issued has been recorded, not later
\* than the call, and the ledger keeps a time no earlier than that record: until
\* the recorded window ends can_query refuses the user, whether the call is in
\* flight, failed or answered; and a query of the same user that starts while the
\* call is in flight, inside that window, is rejected with the remaining time.
C9_RecordBeforeCall ==
    /\ [](\A h \in Tasks :
            LET t == tasks[h]
            IN  IsQuery(t) /\ ~IsAdmin(t.role) /\ t.api = 1 =>
                  /\ t.recorded = 1
                  /\ t.recAt <= t.sentAt
                  /\ t.user \in DOMAIN user_last_query
                  /\ user_last_query[t.user] >= t.recAt
                  /\ now < t.recAt + CooldownTicks =>
                       ~can_query(user_last_query, t.user, now)[1])
    /\ [][ \A h1, h2 \in Tasks :
             /\ h1 # h2
             /\ tasks[h1].pc = "api" /\ ~IsAdmin(tasks[h1].role)
             /\ now < tasks[h1].recAt + CooldownTicks
             /\ tasks[h2].pc = "idle" /\ IsQuery(tasks'[h2])
             /\ tasks'[h2].user = tasks[h1].user /\ ~IsAdmin(tasks'[h2].role)
             => /\ tasks'[h2].checked = "rejected"
                /\ Kinds(tasks'[h2].out) = <<"cooldown">> ]_vars

\* While one query's call is in flight, a second query of the same user has been
\* rejected for cooldown.
C9_Witness ==
    \E h1, h2 \in Tasks :
        /\ tasks[h1].pc = "api" /\ ~IsAdmin(tasks[h1].role)
        /\ Finished(h2) /\ IsQuery(tasks[h2])
        /\ tasks[h2].user = tasks[h1].user
        /\ tasks[h2].checked = "rejected"

\* C10: query_gemini_api raises for no outcome; a handling that made the call
\* ends normally, and one whose call failed with exactly one error reply and no
\* generated text.
C10_FailureOneErrorReply ==
    /\ \A o \in ApiOutcomes, n \in ResponseLens : ~query_gemini_api(o, n).raised
    /\ \A h \in Tasks :
         LET t == tasks[h]
         IN  /\ t.api = 1 => ~t.crashed
             /\ t.failed =>
                  /\ Finished(h)
                  /\ Count(t.out, "ai_error") = 1
                  /\ Count(t.out, "ai_text") = 0
                  /\ t.out[1].kind = "ai_error"

\* The call of a trigger-phrase query failed and the error text was sent.
C10_Witness ==
    \E h \in Tasks :
        /\ Finished(h)
        /\ tasks[h].kind = "msg"
        /\ tasks[h].failed
        /\ Count(tasks[h].out, "ai_error") = 1

IsText(m) == m.kind = "ai_text"

\* The messages of a handling that carry generated text, in the order sent.
TextOut(out) == SelectSeq(out, IsText)

Lens(ms) == [i \in DOMAIN ms |-> ms[i].len]

\* The messages ms, put one after the other, are the text of length n: the first
\* starts at the text's first character, each next one where the one before it
\* ended, the last ends with the text, and none holds a character beside its
\* slice.
Covers(ms, n) ==
    /\ ms # <<>>
    /\ ms[1].start = 0
    /\ \A i \in DOMAIN ms : ms[i].extra = 0
    /\ \A i \in 1..(Len(ms) - 1) : ms[i + 1].start = ms[i].start + ms[i].len
    /\ ms[Len(ms)].start + ms[Len(ms)].len = n

\* C11: for every generated response, on the trigger-phrase path and on the /ai
\* path, the messages sent, concatenated in the order sent, are the response: no
\* gap, no overlap, no added character; a response of 4200 characters goes out as
\* messages of 1990, 1990 and 220 characters.
C11_ChunkCoverage ==
    \A h \in Tasks :
        LET t == tasks[h]
        IN  Finished(h) /\ TextOut(t.out) # <<>> =>
              /\ Covers(TextOut(t.out), t.rlen)
              /\ t.rlen = 4200 => Lens(TextOut(t.out)) = <<1990, 1990, 220>>

\* C12: every message that carries generated text, on both paths, is at most
\* 2000 characters long; a response of at most 2000 characters is sent as exactly
\* one message, a longer one only as messages of at most 1990 characters.
C12_ChunkBound ==
    \A h \in Tasks :
        LET t == tasks[h]
            ms == TextOut(t.out)
        IN  Finished(h) /\ ms # <<>> =>
              /\ \A i \in DOMAIN ms : ms[i].len <= MessageCeiling
              /\ t.rlen <= MessageCeiling => Len(ms) = 1
              /\ t.rlen > MessageCeiling => \A i \in DOMAIN ms : ms[i].len <= ChunkLen

\* C13: the chunks of a response are sent in increasing order of their place in
\* the text, the first by message.reply and every later one by channel.send, and
\* the send of a chunk starts only after the send of the chunk before it
\* completed; when the handler ends every send has completed and the chunks are
\* the whole response.
C13_ChunksInOrder ==
    \A h \in Tasks :
        LET t == tasks[h]
            ms == TextOut(t.out)
        IN  t.kind = "msg" /\ ms # <<>> =>
              /\ \A i \in 1..(Len(ms) - 1) : ms[i].start < ms[i + 1].start
              /\ ms[1].via = "reply" /\ ms[1].start = 0
              /\ \A i \in 2..Len(ms) : ms[i].via = "send"
              /\ Len(ms) <= t.acked + 1
              /\ Finished(h) => t.acked = Len(ms) /\ Covers(ms, t.rlen)

\* The third chunk of a response is on its way while another handler is still
\* sending: the two chunks before it have completed.
C13_Witness ==
    \E h, g \in Tasks :
        /\ h # g
        /\ tasks[h].pc = "send"
        /\ Len(TextOut(tasks[h].out)) = 3
        /\ tasks[h].acked = 2
        /\ tasks[g].pc = "send"

\* The capital of a letter of the trigger phrase.
Capital(c) ==
    CASE c = "o" -> "O"
      [] c = "h" -> "H"
      [] c = "k" -> "K"
      [] c = "p" -> "P"
      [] c = "b" -> "B"
      [] c = "a" -> "A"
      [] OTHER   -> c

\* The content begins with the trigger phrase, each letter in either case.
BeginsWithPhrase(content) ==
    /\ Len(content) >= Len(AI_TRIGGER_PHRASE)
    /\ \A i \in DOMAIN AI_TRIGGER_PHRASE :
         content[i] \in {AI_TRIGGER_PHRASE[i], Capital(AI_TRIGGER_PHRASE[i])}

DispatcherKinds ==
    RejectKinds \cup ModKinds \cup {"ai_text", "ai_error"}

\* C14: a message (of a non-bot author) that does not begin with the trigger
\* phrase, letter case ignored, gets no reply of the dispatcher, no
\* text-generation call, no moderation action and no change of the ledger; a
\* message that begins with the phrase in any letter case is taken as addressed
\* to the bot: unless its handling is cut short by an exception, it is answered
\* by the dispatcher or goes on to the call.
C14_TriggerPhraseOnly ==
    /\ [](\A h \in Tasks :
            LET t == tasks[h]
            IN  t.kind = "msg" /\ ~t.bot =>
                  /\ t.trig <=> BeginsWithPhrase(t.head)
                  /\ ~BeginsWithPhrase(t.head) =>
                       /\ Finished(h)
                       /\ t.api = 0 /\ t.recorded = 0 /\ t.action = "none"
                       /\ t.checked = "none"
                       /\ \A i \in DOMAIN t.out : t.out[i].kind \notin DispatcherKinds
                  /\ BeginsWithPhrase(t.head) /\ Finished(h) /\ ~t.crashed =>
                       /\ t.out # <<>>
                       /\ t.out[1].kind \in DispatcherKinds)
    /\ [][ \A h \in Tasks :
             /\ tasks[h].pc = "idle" /\ tasks'[h].kind = "msg"
             /\ ~BeginsWithPhrase(tasks'[h].head)
             => user_last_query' = user_last_query /\ accept_log' = accept_log ]_vars

\* A message that begins with the phrase in mixed case was answered with
\* generated text.
C14_Witness ==
    \E h \in Tasks :
        /\ Finished(h)
        /\ tasks[h].kind = "msg"
        /\ tasks[h].head # AI_TRIGGER_PHRASE
        /\ BeginsWithPhrase(tasks[h].head)
        /\ TextOut(tasks[h].out) # <<>>

\* A finished handling of a triggered message whose prompt passed the length
\* checks.
Dispatched(h) ==
    /\ Finished(h)
    /\ tasks[h].kind = "msg" /\ tasks[h].trig
    /\ tasks[h].plen > 0 /\ tasks[h].plen <= MaxPromptLen

\* C15: a triggered message is a moderation directive exactly when its remainder
\* holds one of the keywords and the message mentions a user; a remainder with a
\* keyword and no mention is an ordinary query: it passes the cooldown check and
\* goes to the text-generation call.
C15_DirectiveNeedsMention ==
    \A h \in Tasks :
        LET t == tasks[h]
        IN  Dispatched(h) /\ t.checked # "rejected" =>
              /\ HasKeyword(t.kw) /\ t.ment =>
                   t.out[1].kind \in ModKinds /\ t.api = 0
              /\ ~(HasKeyword(t.kw) /\ t.ment) =>
                   /\ t.out # <<>> /\ t.out[1].kind \in {"ai_text", "ai_error"}
                   /\ t.api = 1
                   /\ t.action = "none"

\* C16: a moderation directive that is carried out performs the action its
\* keyword names: kick, ban, mute, and for the keyword unmute the removal of the
\* timeout.
C16_ActionNamedByKeyword ==
    \A h \in Tasks :
        LET t == tasks[h]
        IN  Dispatched(h) /\ Kinds(t.out) = <<"mod_done">> =>
              /\ t.action \in Keywords
              /\ t.action = t.kw

DenialKinds == {"mod_denied", "admin_denied"}

\* C17: a moderation directive of a caller without the moderation capability is
\* answered with the denial and performs no action; an administrative command of
\* a caller who does not pass its authorization check is answered with one denial
\* and has no effect, and a command has its effect only for a caller who passes.
C17_DeniedWithoutEffect ==
    \A h \in Tasks :
        LET t == tasks[h]
        IN  /\ Dispatched(h) /\ HasKeyword(t.kw) /\ t.ment /\ ~CanModerate(t.role) =>
                 /\ Kinds(t.out) = <<"mod_denied">>
                 /\ t.action = "none"
            /\ t.action # "none" => CanModerate(t.role)
            /\ Finished(h) /\ t.kind = "admin" =>
                 /\ t.effect # "none" => authorized(t.cmd, t.perms, t.writer)
                 /\ ~authorized(t.cmd, t.perms, t.writer) =>
                      /\ Kinds(t.out) = <<"admin_denied">>
                      /\ t.effect = "none"
                      /\ ~t.crashed

\* C18: every handling of a message of a non-bot author that begins with the
\* trigger phrase, in a guild or in a direct message, ends without an exception
\* leaving the handler and with at least one reply of the dispatcher.
C18_AlwaysAnswered ==
    \A h \in Tasks :
        LET t == tasks[h]
        IN  Finished(h) /\ t.kind = "msg" /\ ~t.bot /\ BeginsWithPhrase(t.head) =>
              /\ ~t.crashed
              /\ t.out # <<>>
              /\ t.out[1].kind \in DispatcherKinds

NonNull(track) == track # "null"

\* C19: on a queue whose loop flag was never set and from which nothing was
\* removed, the calls of advance() return the tracks in the order they were
\* enqueued; advance() returns null exactly when every enqueued track has been
\* returned, and then current is null (A, B, C enqueued: A, B, C, null).
C19_QueueFIFO ==
    LET ret == player.ret
        got == SelectSeq(ret, NonNull)
    IN  player.plain =>
          /\ Len(got) <= Len(player.enq)
          /\ got = SubSeq(player.enq, 1, Len(got))
          /\ Len(got) + Len(player.queue.songs) = Len(player.enq)
          /\ ret # <<>> => player.queue.current = ret[Len(ret)]
          /\ \A n \in 1..MaxQueue :
               Len(player.enq) = n /\ Len(ret) > n /\ (\A i \in 1..n : ret[i] # "null") =>
                   /\ SubSeq(ret, 1, n) = player.enq
                   /\ ret[n + 1] = "null"

\* Three tracks were enqueued and four calls of advance() have returned them in
\* order and then null.
C19_Witness ==
    /\ player.plain
    /\ player.enq = <<"A", "B", "A">>
    /\ player.ret = <<"A", "B", "A", "null">>
    /\ player.queue.current = "null"

PlayNextCalled == player'.flip # player.flip

C22_LedgerMonotone ==
    [][ \A u \in DOMAIN user_last_query :
          /\ u \in DOMAIN user_last_query'
          /\ user_last_query'[u] >= user_last_query[u] ]_vars

\* A user's entry has been written a second time, one cooldown after the first,
\* while the other user's entry is still there.
C22_Witness ==
    \E u, v \in Users :
        /\ u # v
        /\ v \in DOMAIN user_last_query
        /\ u \in DOMAIN user_last_query
        /\ Len(accept_log[u]) = 2
        /\ accept_log[u][1] < accept_log[u][2]
        /\ user_last_query[u] = accept_log[u][2]

\* A step of one reminder leaves every other reminder, every handler and the
\* ledger as they were.
C23_Independent ==
    [][\A r \in ReminderIds :
          reminders'[r] # reminders[r] =>
              /\ \A q \in ReminderIds \ {r} : reminders'[q] = reminders[q]
              /\ tasks' = tasks
              /\ user_last_query' = user_last_query]_vars

\* One task per confirmed request, at most one delivery per reminder, a
\* channel delivery only after a refused direct message, and a swallowed
\* failure only of the channel send.
C23_DeliveredOnce ==
    \A r \in ReminderIds :
        LET rec == reminders[r] IN
        /\ rec.created = (IF rec.reply = "confirmation" THEN 1 ELSE 0)
        /\ rec.dm + rec.chan <= 1
        /\ rec.chan = 1 => rec.dm_result = "forbidden"
        /\ rec.swallowed => rec.pc = "done" /\ ~rec.escaped

\* C23: every accepted /remind request (one whose confirmation was sent) has
\* created exactly one deferred task; a reminder is delivered at most once, by
\* direct message or in the channel; a task that has ended without reaching
\* the user by direct message has sent the reminder to the originating
\* channel, or has swallowed the failure of that send; and no exception
\* leaves a reminder task.
C23_RemindersFireOnce ==
    \A r \in ReminderIds :
        LET rec == reminders[r] IN
        /\ C23_DeliveredOnce
        /\ (rec.pc = "done" /\ rec.dm = 0) => (rec.chan = 1 \/ rec.swallowed)
        /\ ~rec.escaped

\* C24: the reply of a cooldown rejection, of on_message and of /ai, shows a
\* strictly positive remaining time: never "Ready to use", never 0 minutes and
\* 0 seconds.
C24_RejectionShowsPositiveTime ==
    \A h \in Tasks :
        LET t == tasks[h] IN
        (t.checked = "rejected" /\ Len(t.out) = 1 /\ t.out[1].kind = "cooldown") =>
            /\ ~t.shown.ready
            /\ t.shown.minutes * SecondsPerMinute + t.shown.secs > 0

\* C25: the output of on_message for a message that starts with the trigger
\* phrase holds no witty trigger-word response, whatever the dispatcher did
\* with the message.
C25_NoWittyAfterDispatch ==
    \A h \in Tasks :
        LET t == tasks[h] IN
        (t.kind = "msg" /\ t.trig) =>
            \A i \in 1..Len(t.out) : t.out[i].kind # "witty"

\* The same for the handlings that end in a return of the dispatcher: a
\* rejection, a usage hint or a moderation result.
C25_NoWittyAfterReturn ==
    \A h \in Tasks :
        LET t == tasks[h] IN
        (t.kind = "msg" /\ t.trig /\ t.api = 0) =>
            \A i \in 1..Len(t.out) : t.out[i].kind \notin {"witty", "reaction"}

\* A user leaves afk_users only in the step in which afk_listener starts on a
\* message of that user that is not a bot's, and every such step leaves the
\* author out of afk_users.
AfkLeavesByOwnMessage ==
    /\ \A u \in DOMAIN afk_users :
          u \notin DOMAIN afk_users' =>
              \E h \in Tasks :
                  /\ afk_listeners[h].pc = "idle"
                  /\ afk_listeners'[h].pc # "idle"
                  /\ afk_listeners'[h].author = u
                  /\ ~afk_listeners'[h].bot
    /\ \A h \in Tasks :
          (/\ afk_listeners[h].pc = "idle"
           /\ afk_listeners'[h].pc # "idle"
           /\ ~afk_listeners'[h].bot) =>
              afk_listeners'[h].author \notin DOMAIN afk_users'

AfkPeriodsEnded(u) ==
    afk_log.begun[u] - (IF u \in DOMAIN afk_users THEN 1 ELSE 0)

\* One welcome-back for each AFK period that has ended, at most one from one
\* listener, and notices only about users who were AFK when the notice was
\* sent and who are not the author.
AfkNoticesRight ==
    /\ \A u \in Users : afk_log.welcomed[u] = AfkPeriodsEnded(u)
    /\ \A h \in Tasks :
          LET l == afk_listeners[h] IN
          /\ Welcomes(l.out) <= 1
          /\ \A i \in 1..Len(l.out) :
                l.out[i].kind = "afk_notice" =>
                    l.out[i].afk_then /\ l.out[i].about # l.author

\* C26: a user stays in afk_users until afk_listener starts on the user's next
\* message that is not a bot's, and that step removes the entry; for every
\* user the welcome-backs sent are exactly one for each AFK period that has
\* ended, under every interleaving of the listeners; and every AFK notice is
\* about a user who was in afk_users when it was sent and who is not the
\* author of the message.
C26_AfkLifecycle == [][AfkLeavesByOwnMessage]_vars /\ []AfkNoticesRight

\* Two messages of an AFK user were handled at the same time: one listener has
\* sent the welcome-back and waits, the other has found the user gone and has
\* sent a notice about the other user, who is AFK.
C26_Witness ==
    \E g, h \in Tasks, u \in Users :
        /\ g # h
        /\ afk_listeners[g].pc = "welcome" /\ afk_listeners[g].author = u
        /\ afk_listeners[h].pc = "notice" /\ afk_listeners[h].author = u
        /\ Welcomes(afk_listeners[h].out) = 0
        /\ afk_log.welcomed[u] = 1
        /\ u \notin DOMAIN afk_users

\* C27: in one TriviaView, under every interleaving of the button callbacks,
\* every user who has clicked has received exactly one verdict, the one of the
\* first click (Correct if and only if its option is the right one), whatever
\* the other users did; every later click of the user was answered with
\* "You already answered!"; and the users who answered are those with a
\* verdict.
C27_OneVerdictPerUser ==
    \A u \in Users :
        /\ Len(trivia.verdicts[u]) = (IF trivia.clicks[u] > 0 THEN 1 ELSE 0)
        /\ trivia.already[u] = trivia.clicks[u] - Len(trivia.verdicts[u])
        /\ (u \in trivia.answered) = (trivia.clicks[u] > 0)
        /\ \A i \in 1..Len(trivia.verdicts[u]) :
              (trivia.verdicts[u][i].verdict = "correct")
                  = (trivia.verdicts[u][i].option = trivia.correct)

\* Both users clicked twice: each received one verdict, one Correct and one
\* Wrong, and one "You already answered!", whose send is still under way for
\* both at the same time.
C27_Witness ==
    /\ \A u \in Users : trivia.clicks[u] = 2 /\ trivia.already[u] = 1
    /\ \E u, v \in Users :
          /\ trivia.verdicts[u][1].verdict = "correct"
          /\ trivia.verdicts[v][1].verdict = "wrong"
    /\ \A h \in Tasks : trivia.callbacks[h].pc = "sending"
                        /\ trivia.callbacks[h].reply = "already"

Globals(g) ==
    <<g.BOT_DATA, g.WITTY_RESPONSES, g.WELCOME_MESSAGES, g.CONFIG, g.TRIGGER_WORDS>>

\* A reload in which reload_bot_data raises leaves the five globals as they
\* were.
ReloadAllOrNothing ==
    (config'.flip # config.flip /\ config'.raised) => Globals(config') = Globals(config)

\* TRIGGER_WORDS holds the keys of WITTY_RESPONSES.
TriggerWordsAreKeys ==
    /\ config.WITTY_RESPONSES.type = "dict"
    /\ config.TRIGGER_WORDS = config.WITTY_RESPONSES.keys

\* C28: a reload in which reload_bot_data raises (no file, no JSON, or JSON of
\* the wrong shape) leaves BOT_DATA, WITTY_RESPONSES, WELCOME_MESSAGES, CONFIG
\* and TRIGGER_WORDS as they were, and in every reachable state TRIGGER_WORDS
\* holds exactly the keys of WITTY_RESPONSES.
C28_ReloadAtomic == [][ReloadAllOrNothing]_vars /\ []TriggerWordsAreKeys

\* The same for a file that is not there or is not JSON.
C28_UnreadableFileKeepsAll ==
    [][config.file.state # "json" => ReloadAllOrNothing]_vars

\* C29: a step in which on_message or afk_listener starts on a message whose
\* author is a bot ends that handler at once, with no reply, no reaction, no
\* call of query_gemini_api, no moderation action and no exception, and
\* leaves the cooldown ledger and afk_users as they were.
C29_BotMessagesIgnored ==
    [][ /\ \A h \in Tasks :
              (/\ tasks[h].pc = "idle"
               /\ tasks'[h].kind = "msg"
               /\ tasks'[h].bot) =>
                  /\ tasks'[h].pc = "done"
                  /\ tasks'[h].out = <<>>
                  /\ tasks'[h].api = 0
                  /\ tasks'[h].action = "none"
                  /\ tasks'[h].recorded = 0
                  /\ ~tasks'[h].crashed
                  /\ user_last_query' = user_last_query
                  /\ afk_users' = afk_users
        /\ \A h \in Tasks :
              (/\ afk_listeners[h].pc = "idle"
               /\ afk_listeners'[h].pc # "idle"
               /\ afk_listeners'[h].bot) =>
                  /\ afk_listeners'[h].pc = "done"
                  /\ afk_listeners'[h].out = <<>>
                  /\ ~afk_listeners'[h].crashed
                  /\ user_last_query' = user_last_query
                  /\ afk_users' = afk_users
                  /\ afk_log' = afk_log ]_vars

\* Both handlers have run on a bot's message and are over: on_message on a
\* moderation directive with a mention, from an author whose id is in the
\* ledger and not in cooldown's way, afk_listener on a message that mentions
\* a user who is AFK.
C29_Witness ==
    \E u \in Users :
        /\ tasks["t1"].pc = "done" /\ tasks["t1"].kind = "msg" /\ tasks["t1"].bot
        /\ is_triggered(tasks["t1"].head)
        /\ HasKeyword(tasks["t1"].kw) /\ tasks["t1"].ment
        /\ tasks["t1"].out = <<>>
        /\ DOMAIN user_last_query # {}
        /\ afk_listeners["t1"].pc = "done" /\ afk_listeners["t1"].bot
        /\ afk_listeners["t1"].ment = <<u>>
        /\ u \in DOMAIN afk_users
        /\ afk_listeners["t1"].out = <<>>

====
